---- MODULE Spec2Model ----
(***************************************************************************)
(* Model of the task/project data-management layer: the SQLite record      *)
(* store (src/storage.py, class Storage) and the domain manager in front   *)
(* of it (src/task_manager.py, class TaskManager).                         *)
(*                                                                         *)
(* Text values (names, descriptions, assignees, dates) are sequences of    *)
(* one-character strings.  An optional value (Python None or a value) is   *)
(* a sequence of length at most one: None is << >>, a value v is <<v>>.    *)
(* The status and priority literals of the source are Japanese strings;    *)
(* the model writes them with the ASCII names of the specification, in     *)
(* the order of the source lists.                                          *)
(***************************************************************************)
EXTENDS Integers, Sequences, FiniteSets, TLC

VARIABLES projects, tasks, seq_projects, seq_tasks, now, ret, issued, conn

vars == <<projects, tasks, seq_projects, seq_tasks, now, ret, issued, conn>>

(***************************************************************************)
(* Bounds of the model.                                                    *)
(***************************************************************************)
\* The clock stops at MaxClock; every insert or update of a row takes one
\* tick, so MaxClock also bounds the number of such writes of a behaviour.
MaxClock == 3

\* Last clock reading at which a write is made in the backup behaviours.
MaxBackupClock == 4

\* Last clock reading at which a write is made in the palette behaviours:
\* one more project than the palette has colors can be created.
MaxColorClock == 7

\* Last clock reading at which a write is made in the view behaviours.
MaxViewClock == 4

MaxReadClock == 3

MaxImportClock == 4

MaxAtomicClock == 5

\* Clock ticks per second: CURRENT_TIMESTAMP has a resolution of one second,
\* datetime.now() a finer one.
TicksPerSecond == 2

(***************************************************************************)
(* Program constants.                                                      *)
(***************************************************************************)
STATUSES == <<"todo", "in_progress", "review", "done">>

PRIORITIES == <<"low", "medium", "high">>

DEFAULT_COLORS == <<"#3B82F6", "#10B981", "#F59E0B", "#EF4444", "#8B5CF6", "#EC4899">>

\* Defaults of Storage.create_project / Storage.create_task parameters.
StorageDefaultColor == "#3B82F6"

Range(s) == {s[i] : i \in DOMAIN s}

None == << >>

Some(v) == <<v>>

(***************************************************************************)
(* str.strip(): drop leading and trailing whitespace.                      *)
(***************************************************************************)
Whitespace == {" ", "\t", "\n"}

RECURSIVE LStrip(_)
LStrip(s) ==
    IF s # << >> /\ Head(s) \in Whitespace THEN LStrip(Tail(s)) ELSE s

RECURSIVE RStrip(_)
RStrip(s) ==
    IF s # << >> /\ s[Len(s)] \in Whitespace
    THEN RStrip(SubSeq(s, 1, Len(s) - 1))
    ELSE s

strip(s) == RStrip(LStrip(s))

(***************************************************************************)
(* Timestamps.  A row inserted without created_at/updated_at gets SQLite's *)
(* CURRENT_TIMESTAMP (text, one-second resolution); an update stamps       *)
(* updated_at with datetime.now().isoformat() (another text format, clock  *)
(* resolution).                                                            *)
(***************************************************************************)
CURRENT_TIMESTAMP(t) == [fmt |-> "sql", t |-> t \div TicksPerSecond]

isoformat(t) == [fmt |-> "iso", t |-> t]

(***************************************************************************)
(* The database as a value: the two tables, the sqlite_sequence counters   *)
(* of the two AUTOINCREMENT keys, and the clock the writes read.           *)
(***************************************************************************)
DB == [projects |-> projects, tasks |-> tasks,
       seq_projects |-> seq_projects, seq_tasks |-> seq_tasks, now |-> now]

EmptyDB == [projects |-> {}, tasks |-> {}, seq_projects |-> 0, seq_tasks |-> 0,
            now |-> 0]

Ids(rows) == {r.id : r \in rows}

MaxOf(S) == IF S = {} THEN 0 ELSE CHOOSE m \in S : \A x \in S : x <= m

\* INTEGER PRIMARY KEY AUTOINCREMENT: one more than the largest rowid the
\* table has ever held (sqlite_sequence), never a rowid of a deleted row.
RowidReuse(seq, rows) == MaxOf(Ids(rows)) + 1

Autoincrement(seq, rows) == MaxOf(Ids(rows) \cup {seq}) + 1

\* Outcome of a call: the database after it, the exception it raised ("none"
\* when it returned), and the value it returned (an id, or a boolean).
Returned(db, id, ok) == [db |-> db, exc |-> "none", id |-> id, ok |-> ok]

Raised(db, exc) == [db |-> db, exc |-> exc, id |-> 0, ok |-> FALSE]

(***************************************************************************)
(* Record Store (class Storage).  Every operation is a function of the     *)
(* database value.  An insert or update that writes a row reads the clock  *)
(* at db.now and takes one tick, so that two such writes never read the    *)
(* same clock value.                                                       *)
(***************************************************************************)
Committed(db) == [db EXCEPT !.now = @ + 1]

\* ORDER BY created_at DESC: the possible result sequences.  Rows with equal
\* created_at may come in any order (SQL leaves the order of ties open).
RECURSIVE OrderByCreatedAtDesc(_)
OrderByCreatedAtDesc(rows) ==
    IF rows = {} THEN {<< >>}
    ELSE UNION {{<<r>> \o s : s \in OrderByCreatedAtDesc(rows \ {r})} :
                r \in {x \in rows : \A y \in rows : y.created_at.t <= x.created_at.t}}

Storage_create_project(db, name, description, color) ==
    LET project_id == Autoincrement(db.seq_projects, db.projects)
        row == [id |-> project_id, name |-> name, description |-> description,
                color |-> color,
                created_at |-> CURRENT_TIMESTAMP(db.now),
                updated_at |-> CURRENT_TIMESTAMP(db.now)]
    IN  Returned(Committed([db EXCEPT !.projects = @ \cup {row},
                                      !.seq_projects = project_id]),
                 project_id, TRUE)

Storage_get_project(db, project_id) ==
    LET rows == {p \in db.projects : p.id = project_id}
    IN  IF rows = {} THEN None ELSE Some(CHOOSE p \in rows : TRUE)

Storage_get_all_projects(db) == OrderByCreatedAtDesc(db.projects)

ProjectAllowedFields == {"name", "description", "color"}

\* A variant that writes the fields and leaves updated_at alone.
UpdateRows_keeps_stamp(rows, id, fields, t) ==
    {IF r.id = id
     THEN [k \in DOMAIN r |-> IF k \in DOMAIN fields THEN fields[k] ELSE r[k]]
     ELSE r : r \in rows}

\* UPDATE <table> SET <fields>, updated_at = now WHERE id = <id>
UpdateRows(rows, id, fields, t) ==
    {IF r.id = id
     THEN [k \in DOMAIN r |->
              IF k = "updated_at" THEN isoformat(t)
              ELSE IF k \in DOMAIN fields THEN fields[k] ELSE r[k]]
     ELSE r : r \in rows}

Storage_update_project_stamps_always(db, project_id, kwargs) ==
    LET fields == [k \in DOMAIN kwargs \cap ProjectAllowedFields |-> kwargs[k]]
        affected == Cardinality({p \in db.projects : p.id = project_id})
    IN  IF affected > 0
        THEN Returned(Committed([db EXCEPT !.projects =
                          UpdateRows(@, project_id, fields, db.now)]),
                      0, DOMAIN fields # {})
        ELSE Returned(db, 0, FALSE)

Storage_update_project(db, project_id, kwargs) ==
    IF DOMAIN kwargs = {} THEN Returned(db, 0, FALSE)
    ELSE LET fields == [k \in DOMAIN kwargs \cap ProjectAllowedFields |-> kwargs[k]]
             affected == Cardinality({p \in db.projects : p.id = project_id})
         IN  IF DOMAIN fields = {} THEN Returned(db, 0, FALSE)
             ELSE IF affected > 0
                  THEN Returned(Committed([db EXCEPT !.projects =
                                    UpdateRows(@, project_id, fields, db.now)]),
                                0, TRUE)
                  ELSE Returned(db, 0, FALSE)

Storage_delete_project_no_cascade(db, project_id) ==
    LET affected == Cardinality({p \in db.projects : p.id = project_id})
    IN  Returned([db EXCEPT !.projects = {p \in @ : p.id # project_id}],
                 0, affected > 0)

Storage_delete_project(db, project_id) ==
    LET affected == Cardinality({p \in db.projects : p.id = project_id})
    IN  Returned([db EXCEPT !.tasks = {t \in @ : t.project_id # project_id},
                            !.projects = {p \in @ : p.id # project_id}],
                 0, affected > 0)

Storage_create_task(db, project_id, name, due_date, priority, status, progress, assignee) ==
    LET task_id == Autoincrement(db.seq_tasks, db.tasks)
        row == [id |-> task_id, project_id |-> project_id, name |-> name,
                due_date |-> due_date, priority |-> priority, status |-> status,
                progress |-> progress, assignee |-> assignee,
                created_at |-> CURRENT_TIMESTAMP(db.now),
                updated_at |-> CURRENT_TIMESTAMP(db.now)]
    IN  Returned(Committed([db EXCEPT !.tasks = @ \cup {row},
                                      !.seq_tasks = task_id]),
                 task_id, TRUE)

Storage_get_task(db, task_id) ==
    LET rows == {t \in db.tasks : t.id = task_id}
    IN  IF rows = {} THEN None ELSE Some(CHOOSE t \in rows : TRUE)

Storage_get_tasks_by_project(db, project_id) ==
    OrderByCreatedAtDesc({t \in db.tasks : t.project_id = project_id})

Storage_get_tasks_by_status(db, project_id, status) ==
    OrderByCreatedAtDesc({t \in db.tasks :
                            t.project_id = project_id /\ t.status = status})

\* A variant that lets a task be moved to another project.
TaskAllowedFields_with_project_id ==
    {"name", "due_date", "priority", "status", "progress", "assignee",
     "project_id"}

TaskAllowedFields ==
    {"name", "due_date", "priority", "status", "progress", "assignee"}

Storage_update_task_stamps_always(db, task_id, kwargs) ==
    LET fields == [k \in DOMAIN kwargs \cap TaskAllowedFields |-> kwargs[k]]
        affected == Cardinality({t \in db.tasks : t.id = task_id})
    IN  IF affected > 0
        THEN Returned(Committed([db EXCEPT !.tasks =
                          UpdateRows(@, task_id, fields, db.now)]),
                      0, DOMAIN fields # {})
        ELSE Returned(db, 0, FALSE)

Storage_update_task(db, task_id, kwargs) ==
    IF DOMAIN kwargs = {} THEN Returned(db, 0, FALSE)
    ELSE LET fields == [k \in DOMAIN kwargs \cap TaskAllowedFields |-> kwargs[k]]
             affected == Cardinality({t \in db.tasks : t.id = task_id})
         IN  IF DOMAIN fields = {} THEN Returned(db, 0, FALSE)
             ELSE IF affected > 0
                  THEN Returned(Committed([db EXCEPT !.tasks =
                                    UpdateRows(@, task_id, fields, db.now)]),
                                0, TRUE)
                  ELSE Returned(db, 0, FALSE)

Storage_delete_task_reports_true(db, task_id) ==
    Returned([db EXCEPT !.tasks = {t \in @ : t.id # task_id}], 0, TRUE)

\* A variant that deletes the task together with the other tasks of its
\* project.
Storage_delete_task_with_siblings(db, task_id) ==
    LET affected == Cardinality({t \in db.tasks : t.id = task_id})
        siblings == {t.project_id : t \in {u \in db.tasks : u.id = task_id}}
    IN  Returned([db EXCEPT !.tasks = {t \in @ : t.project_id \notin siblings}],
                 0, affected > 0)

Storage_delete_task(db, task_id) ==
    LET affected == Cardinality({t \in db.tasks : t.id = task_id})
    IN  Returned([db EXCEPT !.tasks = {t \in @ : t.id # task_id}],
                 0, affected > 0)

(***************************************************************************)
(* Backup (Storage.export_to_json / Storage.import_from_json).  A backup   *)
(* file is unreadable, holds text that is not JSON, or holds a JSON object *)
(* data; its entries are field maps (records), as json.load returns them.  *)
(***************************************************************************)
Get(map, key, default) == IF key \in DOMAIN map THEN map[key] ELSE default

Without(map, keys) == [k \in DOMAIN map \ keys |-> map[k]]

Put(map, key, value) ==
    [k \in DOMAIN map \cup {key} |-> IF k = key THEN value ELSE map[k]]

\* data["tasks"].extend(tasks) for each project of the exported list in turn
RECURSIVE ExportTasks(_, _)
ExportTasks(db, project_list) ==
    IF project_list = << >> THEN {<< >>}
    ELSE {first \o rest :
            first \in Storage_get_tasks_by_project(db, Head(project_list).id),
            rest \in ExportTasks(db, Tail(project_list))}

\* The documents export_to_json can write for db.
Storage_export_to_json(db) ==
    UNION {{[kind |-> "object", data |-> [projects |-> pl, tasks |-> tl]] :
              tl \in ExportTasks(db, pl)} : pl \in Storage_get_all_projects(db)}

\* A variant that stores each project under the id its entry carries, in
\* place of a stored project with that id.
RECURSIVE ImportProjects_keeps_id(_, _, _)
ImportProjects_keeps_id(db, entries, project_id_map) ==
    IF entries = << >>
    THEN [db |-> db, exc |-> "none", project_id_map |-> project_id_map]
    ELSE LET entry == Head(entries)
             project == Without(entry, {"id", "created_at", "updated_at"})
         IN  IF ~ (DOMAIN project \subseteq ProjectAllowedFields
                   /\ "name" \in DOMAIN project)
             THEN [db |-> db, exc |-> "TypeError", project_id_map |-> project_id_map]
             ELSE LET r == Storage_create_project(db, project.name,
                               Get(project, "description", << >>),
                               Get(project, "color", StorageDefaultColor))
                      kept == Get(entry, "id", r.id)
                      rows == {IF p.id = r.id THEN [p EXCEPT !.id = kept] ELSE p :
                                  p \in {q \in r.db.projects : q.id # kept \/ q.id = r.id}}
                  IN  ImportProjects_keeps_id([r.db EXCEPT !.projects = rows],
                          Tail(entries), Put(project_id_map, kept, kept))

\* self.create_project(**project): Python binds the entry's keys to the
\* parameters (name, description="", color="#3B82F6") or raises TypeError.
RECURSIVE ImportProjects(_, _, _)
ImportProjects(db, entries, project_id_map) ==
    IF entries = << >>
    THEN [db |-> db, exc |-> "none", project_id_map |-> project_id_map]
    ELSE LET entry == Head(entries)
             project == Without(entry, {"id", "created_at", "updated_at"})
         IN  IF ~ (DOMAIN project \subseteq ProjectAllowedFields
                   /\ "name" \in DOMAIN project)
             THEN [db |-> db, exc |-> "TypeError", project_id_map |-> project_id_map]
             ELSE LET r == Storage_create_project(db, project.name,
                               Get(project, "description", << >>),
                               Get(project, "color", StorageDefaultColor))
                      truthy == "id" \in DOMAIN entry /\ entry.id # 0
                  IN  ImportProjects(r.db, Tail(entries),
                          IF truthy THEN Put(project_id_map, entry.id, r.id)
                          ELSE project_id_map)

\* A variant that inserts a mapped task under its original project_id.
RECURSIVE ImportTasks_keeps_project_id(_, _, _)
ImportTasks_keeps_project_id(db, entries, project_id_map) ==
    IF entries = << >> THEN [db |-> db, exc |-> "none"]
    ELSE LET entry == Head(entries)
             task == Without(entry, {"project_id", "id", "created_at", "updated_at"})
             mapped == "project_id" \in DOMAIN entry
                       /\ entry.project_id \in DOMAIN project_id_map
         IN  IF ~ mapped
             THEN ImportTasks_keeps_project_id(db, Tail(entries), project_id_map)
             ELSE LET r == Storage_create_task(db, entry.project_id, task.name,
                               task.due_date, task.priority, task.status,
                               task.progress, task.assignee)
                  IN  ImportTasks_keeps_project_id(r.db, Tail(entries), project_id_map)

RECURSIVE ImportTasks(_, _, _)
ImportTasks(db, entries, project_id_map) ==
    IF entries = << >> THEN [db |-> db, exc |-> "none"]
    ELSE LET entry == Head(entries)
             task == Without(entry, {"project_id", "id", "created_at", "updated_at"})
             mapped == "project_id" \in DOMAIN entry
                       /\ entry.project_id \in DOMAIN project_id_map
         IN  IF ~ mapped THEN ImportTasks(db, Tail(entries), project_id_map)
             ELSE IF ~ (DOMAIN task \subseteq TaskAllowedFields
                        /\ "name" \in DOMAIN task)
             THEN [db |-> db, exc |-> "TypeError"]
             ELSE LET r == Storage_create_task(db,
                               project_id_map[entry.project_id], task.name,
                               Get(task, "due_date", None),
                               Get(task, "priority", "medium"),
                               Get(task, "status", "todo"),
                               Get(task, "progress", 0),
                               Get(task, "assignee", None))
                  IN  ImportTasks(r.db, Tail(entries), project_id_map)

\* A variant that inserts under one transaction and rolls it back when an
\* entry fails.
Storage_import_from_json_rollback(db, file) ==
    IF file.kind \in {"unreadable", "malformed"}
    THEN Returned(db, 0, FALSE)
    ELSE LET ps == ImportProjects(db, Get(file.data, "projects", << >>), << >>)
         IN  IF ps.exc # "none" THEN Raised(db, ps.exc)
             ELSE LET ts == ImportTasks(ps.db, Get(file.data, "tasks", << >>),
                                        ps.project_id_map)
                  IN  IF ts.exc # "none" THEN Raised(db, ts.exc)
                      ELSE Returned(ts.db, 0, TRUE)

Storage_import_from_json(db, file) ==
    IF file.kind \in {"unreadable", "malformed"}
    THEN Returned(db, 0, FALSE)   \* OSError / json.JSONDecodeError, caught
    ELSE LET ps == ImportProjects(db, Get(file.data, "projects", << >>), << >>)
         IN  IF ps.exc # "none" THEN Raised(ps.db, ps.exc)
             ELSE LET ts == ImportTasks(ps.db, Get(file.data, "tasks", << >>),
                                        ps.project_id_map)
                  IN  IF ts.exc # "none" THEN Raised(ts.db, ts.exc)
                      ELSE Returned(ts.db, 0, TRUE)

(***************************************************************************)
(* Domain Manager (class TaskManager).  The progress arguments of the      *)
(* model are integers, so isinstance(progress, int) holds of all of them.  *)
(***************************************************************************)
TaskManager_create_project_unstripped(db, name, description, color) ==
    IF strip(name) = << >> THEN Raised(db, "ValueError")
    ELSE Storage_create_project(db, name, strip(description),
             IF color = None
             THEN DEFAULT_COLORS[(Cardinality(db.projects) % Len(DEFAULT_COLORS)) + 1]
             ELSE color[1])

\* A variant that indexes the palette by the number of projects ever created.
TaskManager_create_project_persisted_counter(db, name, description, color) ==
    IF strip(name) = << >> THEN Raised(db, "ValueError")
    ELSE Storage_create_project(db, strip(name), strip(description),
             IF color = None
             THEN DEFAULT_COLORS[(db.seq_projects % Len(DEFAULT_COLORS)) + 1]
             ELSE color[1])

TaskManager_create_project(db, name, description, color) ==
    IF strip(name) = << >> THEN Raised(db, "ValueError")
    ELSE Storage_create_project(db, strip(name), strip(description),
             IF color = None
             THEN DEFAULT_COLORS[(Cardinality(db.projects) % Len(DEFAULT_COLORS)) + 1]
             ELSE color[1])

TaskManager_get_project(db, project_id) == Storage_get_project(db, project_id)

TaskManager_update_project(db, project_id, kwargs) ==
    Storage_update_project(db, project_id, kwargs)

TaskManager_delete_project(db, project_id) ==
    Storage_delete_project(db, project_id)

\* The write placed before the project-existence check.
TaskManager_create_task_late_check(db, project_id, name, due_date, priority, status, progress, assignee) ==
    IF strip(name) = << >> THEN Raised(db, "ValueError")
    ELSE IF priority \notin Range(PRIORITIES) THEN Raised(db, "ValueError")
    ELSE IF status \notin Range(STATUSES) THEN Raised(db, "ValueError")
    ELSE IF ~ (0 <= progress /\ progress <= 100) THEN Raised(db, "ValueError")
    ELSE LET r == Storage_create_task(db, project_id, strip(name), due_date,
                      priority, status, progress, assignee)
         IN  IF Storage_get_project(db, project_id) = None
             THEN Raised(r.db, "ValueError")
             ELSE r

\* The progress range checked with strict comparisons.
TaskManager_create_task_strict_range(db, project_id, name, due_date, priority, status, progress, assignee) ==
    IF strip(name) = << >> THEN Raised(db, "ValueError")
    ELSE IF priority \notin Range(PRIORITIES) THEN Raised(db, "ValueError")
    ELSE IF status \notin Range(STATUSES) THEN Raised(db, "ValueError")
    ELSE IF ~ (0 < progress /\ progress < 100) THEN Raised(db, "ValueError")
    ELSE IF Storage_get_project(db, project_id) = None
         THEN Raised(db, "ValueError")
    ELSE Storage_create_task(db, project_id, strip(name), due_date, priority,
             status, progress, assignee)

TaskManager_create_task(db, project_id, name, due_date, priority, status, progress, assignee) ==
    IF strip(name) = << >> THEN Raised(db, "ValueError")
    ELSE IF priority \notin Range(PRIORITIES) THEN Raised(db, "ValueError")
    ELSE IF status \notin Range(STATUSES) THEN Raised(db, "ValueError")
    ELSE IF ~ (0 <= progress /\ progress <= 100) THEN Raised(db, "ValueError")
    ELSE IF Storage_get_project(db, project_id) = None
         THEN Raised(db, "ValueError")
    ELSE Storage_create_task(db, project_id, strip(name), due_date, priority,
             status, progress, assignee)

TaskManager_get_task(db, task_id) == Storage_get_task(db, task_id)

TaskManager_update_task(db, task_id, kwargs) ==
    IF "priority" \in DOMAIN kwargs /\ kwargs.priority \notin Range(PRIORITIES)
    THEN Raised(db, "ValueError")
    ELSE IF "status" \in DOMAIN kwargs /\ kwargs.status \notin Range(STATUSES)
    THEN Raised(db, "ValueError")
    ELSE IF "progress" \in DOMAIN kwargs
            /\ ~ (0 <= kwargs.progress /\ kwargs.progress <= 100)
    THEN Raised(db, "ValueError")
    ELSE Storage_update_task(db, task_id, kwargs)

\* A variant that lets a task move forward only.
TaskManager_update_task_status_forward_only(db, task_id, status) ==
    LET rank(s) == IF s \in Range(STATUSES)
                   THEN CHOOSE i \in DOMAIN STATUSES : STATUSES[i] = s
                   ELSE 0
        task == Storage_get_task(db, task_id)
    IN  IF task # None /\ rank(status) <= rank(task[1].status)
        THEN Returned(db, 0, FALSE)
        ELSE TaskManager_update_task(db, task_id, [status |-> status])

TaskManager_update_task_status(db, task_id, status) ==
    TaskManager_update_task(db, task_id, [status |-> status])

TaskManager_update_task_progress(db, task_id, progress) ==
    TaskManager_update_task(db, task_id, [progress |-> progress])

TaskManager_delete_task(db, task_id) == Storage_delete_task(db, task_id)

\* Whether the call raises; the list it returns otherwise is the store's,
\* Storage_get_tasks_by_status(db, project_id, status).
TaskManager_get_tasks_by_status(db, project_id, status) ==
    IF status \notin Range(STATUSES) THEN Raised(db, "ValueError")
    ELSE Returned(db, 0, TRUE)

TaskManager_import_backup(db, file) == Storage_import_from_json(db, file)

(***************************************************************************)
(* Inputs the actions draw.  The claims' formulas apply the operations to  *)
(* the wider sets Any... below in every reachable state.                   *)
(***************************************************************************)
ProjectInputs ==
    {[name |-> <<" ", "b", " ">>, description |-> <<" ", "d">>, color |-> None],
     [name |-> <<" ">>, description |-> << >>, color |-> Some("#FFFFFF")]}

ProjectPatches ==
    {<< >>,
     [name |-> << >>],
     [name |-> <<"c">>, id |-> 9]}

BaseTask == [name |-> <<"a">>, due_date |-> None, priority |-> "medium",
             status |-> "todo", progress |-> 0, assignee |-> None]

TaskInputs ==
    {BaseTask,
     [name |-> <<" ", "b", " ">>, due_date |-> Some(<<"0", "1">>),
      priority |-> "high", status |-> "review", progress |-> 100,
      assignee |-> Some(<<"x">>)],
     [BaseTask EXCEPT !.progress = 101],
     [BaseTask EXCEPT !.name = <<" ">>]}

StatusInputs == {"done", "todo", "archived"}

ProgressInputs == {50, -1}

TaskPatches ==
    {<< >>,
     [priority |-> "low", assignee |-> Some(<<"y">>)],
     [project_id |-> 9],
     [name |-> <<"c">>, progress |-> 101]}

\* Ids a caller may pass: every id issued so far and one never issued.
ProjectIdInputs == 1 .. (seq_projects + 1)

TaskIdInputs == 1 .. (seq_tasks + 1)

ProjectEntry(id, name) ==
    [id |-> id, name |-> name, description |-> << >>, color |-> "#10B981",
     created_at |-> CURRENT_TIMESTAMP(0), updated_at |-> CURRENT_TIMESTAMP(0)]

TaskEntry(id, project_id, priority, status, progress) ==
    [id |-> id, project_id |-> project_id, name |-> <<"t">>, due_date |-> None,
     priority |-> priority, status |-> status, progress |-> progress,
     assignee |-> None,
     created_at |-> CURRENT_TIMESTAMP(0), updated_at |-> CURRENT_TIMESTAMP(0)]

Document(project_list, task_list) ==
    [kind |-> "object", data |-> [projects |-> project_list, tasks |-> task_list]]

\* Backup files a user may hand to import_backup, besides the files the
\* program exported itself.
HandWrittenFiles ==
    {[kind |-> "malformed"],
     Document(<<ProjectEntry(1, <<"p">>)>>,
              <<TaskEntry(1, 1, "high", "done", 100),
                TaskEntry(2, 7, "low", "todo", 0)>>),
     Document(<<ProjectEntry(3, <<"p">>)>>,
              <<TaskEntry(1, 3, "urgent", "archived", 101)>>),
     Document(<<ProjectEntry(1, <<"p">>), [id |-> 2, title |-> <<"q">>]>>, << >>)}

(***************************************************************************)
(* The state machine: one action per public operation of the manager.      *)
(* ret records the last call: the operation, the keyword arguments of an   *)
(* update_project / update_task call (<< >> for the other operations, and  *)
(* for an update called without any), the exception the call raised and    *)
(* the value it returned.  issued is the set of project ids the store has  *)
(* assigned so far.  projects and tasks are the committed rows, the ones   *)
(* any connection reads.  conn is the connection of a call in progress,    *)
(* None between calls: a call opens, uses and closes its connection within *)
(* one step, except delete_project in the behaviours of SpecAtomic, which  *)
(* follow it statement by statement.                                       *)
(***************************************************************************)
Init ==
    /\ projects = {}
    /\ tasks = {}
    /\ seq_projects = 0
    /\ seq_tasks = 0
    /\ now = 0
    /\ ret = [op |-> "init", kwargs |-> << >>, exc |-> "none", id |-> 0, ok |-> FALSE]
    /\ issued = {}
    /\ conn = None

\* The call op(kwargs) with outcome r, made while the clock is within bound.
Call(bound, op, kwargs, r) ==
    /\ r.db.now <= bound
    /\ projects' = r.db.projects
    /\ tasks' = r.db.tasks
    /\ seq_projects' = r.db.seq_projects
    /\ seq_tasks' = r.db.seq_tasks
    /\ now' = r.db.now
    /\ ret' = [op |-> op, kwargs |-> kwargs, exc |-> r.exc, id |-> r.id, ok |-> r.ok]
    /\ issued' = issued \cup (Ids(r.db.projects) \ Ids(projects))
    /\ UNCHANGED conn

Apply(op, kwargs, r) == Call(MaxClock, op, kwargs, r)

create_project(in) ==
    Apply("create_project", << >>,
          TaskManager_create_project(DB, in.name, in.description, in.color))

update_project(project_id, kwargs) ==
    Apply("update_project", kwargs,
          TaskManager_update_project(DB, project_id, kwargs))

delete_project(project_id) ==
    Apply("delete_project", << >>, TaskManager_delete_project(DB, project_id))

create_task(project_id, in) ==
    Apply("create_task", << >>,
          TaskManager_create_task(DB, project_id, in.name, in.due_date,
              in.priority, in.status, in.progress, in.assignee))

update_task(task_id, kwargs) ==
    Apply("update_task", kwargs, TaskManager_update_task(DB, task_id, kwargs))

update_task_status(task_id, status) ==
    Apply("update_task_status", << >>,
          TaskManager_update_task_status(DB, task_id, status))

update_task_progress(task_id, progress) ==
    Apply("update_task_progress", << >>,
          TaskManager_update_task_progress(DB, task_id, progress))

delete_task(task_id) ==
    Apply("delete_task", << >>, TaskManager_delete_task(DB, task_id))

get_tasks_by_status(project_id, status) ==
    Apply("get_tasks_by_status", << >>,
          TaskManager_get_tasks_by_status(DB, project_id, status))

import_backup(file) ==
    Apply("import_backup", << >>, TaskManager_import_backup(DB, file))

CreateProject == \E in \in ProjectInputs : create_project(in)

UpdateProject ==
    \E project_id \in ProjectIdInputs, kwargs \in ProjectPatches :
        update_project(project_id, kwargs)

DeleteProject == \E project_id \in ProjectIdInputs : delete_project(project_id)

CreateTask ==
    \E project_id \in ProjectIdInputs, in \in TaskInputs :
        create_task(project_id, in)

UpdateTask ==
    \E task_id \in TaskIdInputs, kwargs \in TaskPatches :
        update_task(task_id, kwargs)

UpdateTaskStatus ==
    \E task_id \in TaskIdInputs, status \in StatusInputs :
        update_task_status(task_id, status)

UpdateTaskProgress ==
    \E task_id \in TaskIdInputs, progress \in ProgressInputs :
        update_task_progress(task_id, progress)

DeleteTask == \E task_id \in TaskIdInputs : delete_task(task_id)

GetTasksByStatus ==
    \E project_id \in ProjectIdInputs, status \in StatusInputs :
        get_tasks_by_status(project_id, status)

ImportBackup ==
    \E file \in HandWrittenFiles \cup Storage_export_to_json(DB) :
        import_backup(file)

Next ==
    \/ CreateProject
    \/ UpdateProject
    \/ DeleteProject
    \/ CreateTask
    \/ UpdateTask
    \/ UpdateTaskStatus
    \/ UpdateTaskProgress
    \/ DeleteTask
    \/ GetTasksByStatus
    \/ ImportBackup

Spec == Init /\ [][Next]_vars

\* The project operations alone.
NextProjectOps ==
    \/ CreateProject
    \/ UpdateProject
    \/ DeleteProject

SpecProjectOps == Init /\ [][NextProjectOps]_vars

\* The operations that create, change and delete single rows.
NextEdits ==
    \/ CreateProject
    \/ UpdateProject
    \/ DeleteProject
    \/ CreateTask
    \/ UpdateTask
    \/ UpdateTaskStatus
    \/ UpdateTaskProgress
    \/ DeleteTask

SpecEdits == Init /\ [][NextEdits]_vars

(***************************************************************************)
(* C1-C2: referential integrity and the cascade of delete_project.         *)
(***************************************************************************)
\* C1: in every reachable state every stored task's project_id is the id of
\* a project that is stored.
C1_ReferentialIntegrity == \A t \in tasks : t.project_id \in Ids(projects)

\* A project was deleted while a task of another project stays stored.
C1_Witness ==
    /\ ret.op = "delete_project" /\ ret.ok
    /\ tasks # {}
    /\ Ids(projects) # issued

\* C2: delete_project(p) on a stored project p returns true; afterwards
\* get_project(p) is absent, no stored task has project_id = p and
\* get_tasks_by_project(p) is the empty sequence.
C2_CascadeDelete ==
    [][\A p \in Ids(projects) :
          delete_project(p) =>
              /\ ret'.exc = "none" /\ ret'.ok
              /\ Storage_get_project(DB', p) = None
              /\ \A t \in tasks' : t.project_id # p
              /\ Storage_get_tasks_by_project(DB', p) = {<< >>}]_vars

\* The only project, holding the two tasks created so far, was deleted.
C2_Witness ==
    /\ ret.op = "delete_project" /\ ret.ok
    /\ seq_projects = 1 /\ seq_tasks = 2 /\ now = 3
    /\ projects = {} /\ tasks = {}

(***************************************************************************)
(* Arguments the claims apply the operations to, in every reachable state. *)
(***************************************************************************)
AnyName ==
    {<< >>, <<" ">>, <<"\t", " ">>, <<"a">>, <<" ", "a">>, <<"a", " ">>,
     <<" ", "a", " ", "b", "\n">>}

AnyPriority == {"low", "medium", "high", "urgent", "Low"}

AnyStatus == {"todo", "in_progress", "review", "done", "archived"}

AnyProgress == {-1, 0, 1, 50, 99, 100, 101}

AnyTask == [name |-> <<" ", "b">>, due_date |-> None, priority |-> "low",
            status |-> "done", progress |-> 1, assignee |-> Some(<<"x">>)]

\* One argument varied at a time, and two with several invalid arguments.
AnyTaskInput ==
    {[AnyTask EXCEPT !.priority = p] : p \in AnyPriority}
    \cup {[AnyTask EXCEPT !.status = st] : st \in AnyStatus}
    \cup {[AnyTask EXCEPT !.progress = g] : g \in AnyProgress}
    \cup {[AnyTask EXCEPT !.priority = "urgent", !.progress = 100],
          [AnyTask EXCEPT !.status = "archived", !.progress = -1]}

AnyTaskPatch ==
    TaskPatches
    \cup {[priority |-> p] : p \in AnyPriority}
    \cup {[status |-> st] : st \in AnyStatus}
    \cup {[progress |-> g] : g \in AnyProgress}
    \cup {[name |-> <<"c">>, status |-> "archived"],
          [due_date |-> Some(<<"0", "3">>), priority |-> "urgent"]}

IsBlank(name) == \A i \in DOMAIN name : name[i] \in Whitespace

\* trimmed is name without its leading and trailing whitespace
IsTrimOf(trimmed, name) ==
    \E i \in 0 .. Len(name) :
        /\ i + Len(trimmed) <= Len(name)
        /\ SubSeq(name, i + 1, i + Len(trimmed)) = trimmed
        /\ IsBlank(SubSeq(name, 1, i))
        /\ IsBlank(SubSeq(name, i + Len(trimmed) + 1, Len(name)))
        /\ trimmed # << >>
        /\ trimmed[1] \notin Whitespace
        /\ trimmed[Len(trimmed)] \notin Whitespace

SameRows(r) == r.db.projects = projects /\ r.db.tasks = tasks

(***************************************************************************)
(* C3-C5: validation of the manager's arguments.                           *)
(***************************************************************************)
\* C3: a manager call that fails with a validation error leaves the stored
\* projects and tasks, with all their fields, as they were.
C3_NoPartialWrites ==
    /\ \A n \in AnyName :
          LET r == TaskManager_create_project(DB, n, <<"d">>, None)
          IN  r.exc = "ValueError" => SameRows(r)
    /\ \A p \in ProjectIdInputs, in \in AnyTaskInput \cup TaskInputs :
          LET r == TaskManager_create_task(DB, p, in.name, in.due_date,
                       in.priority, in.status, in.progress, in.assignee)
          IN  r.exc = "ValueError" => SameRows(r)
    /\ \A t \in TaskIdInputs, kwargs \in AnyTaskPatch :
          LET r == TaskManager_update_task(DB, t, kwargs)
          IN  r.exc = "ValueError" => SameRows(r)
    /\ \A t \in TaskIdInputs, st \in AnyStatus :
          LET r == TaskManager_update_task_status(DB, t, st)
          IN  r.exc = "ValueError" => SameRows(r)
    /\ \A t \in TaskIdInputs, g \in AnyProgress :
          LET r == TaskManager_update_task_progress(DB, t, g)
          IN  r.exc = "ValueError" => SameRows(r)
    /\ \A p \in ProjectIdInputs, st \in AnyStatus :
          LET r == TaskManager_get_tasks_by_status(DB, p, st)
          IN  r.exc = "ValueError" => SameRows(r)

\* update_task was refused for a field map that also names a valid new name,
\* and no stored task got that name.
C3_Witness ==
    /\ ret.op = "update_task" /\ ret.exc = "ValueError"
    /\ "name" \in DOMAIN ret.kwargs
    /\ tasks # {}
    /\ \A t \in tasks : t.name # ret.kwargs.name

\* C4: for a stored project and a non-blank name, create_task stores the task
\* under a new id exactly when priority is one of the 3 priorities, status one
\* of the 4 statuses and 0 <= progress <= 100, and otherwise fails with a
\* validation error; for a project id that is not stored it always fails with
\* a validation error.
C4_CreateTaskAcceptance ==
    \A p \in ProjectIdInputs, in \in AnyTaskInput :
        LET r == TaskManager_create_task(DB, p, in.name, in.due_date,
                     in.priority, in.status, in.progress, in.assignee)
            valid == /\ in.priority \in {"low", "medium", "high"}
                     /\ in.status \in {"todo", "in_progress", "review", "done"}
                     /\ 0 <= in.progress /\ in.progress <= 100
            stored == /\ r.exc = "none"
                      /\ r.id \notin Ids(tasks)
                      /\ \E t \in r.db.tasks :
                            /\ t.id = r.id /\ t.project_id = p
                            /\ t.priority = in.priority /\ t.status = in.status
                            /\ t.progress = in.progress
                            /\ r.db.tasks = tasks \cup {t}
        IN  IF p \notin Ids(projects) THEN r.exc = "ValueError"
            ELSE IF valid THEN stored
            ELSE r.exc = "ValueError" /\ r.db.tasks = tasks

\* create_task just stored a task with the boundary progress 100.
C4_Witness ==
    /\ ret.op = "create_task" /\ ret.exc = "none"
    /\ \E t \in tasks : t.id = ret.id /\ t.progress = 100

\* C5: create_project and create_task (other arguments valid) fail with a
\* validation error exactly when the name is empty after trimming, and
\* otherwise store the trimmed name.
C5_NameValidation ==
    /\ \A n \in AnyName :
          LET r == TaskManager_create_project(DB, n, << >>, None)
          IN  IF IsBlank(n) THEN r.exc = "ValueError"
              ELSE /\ r.exc = "none"
                   /\ \E row \in r.db.projects :
                         row.id = r.id /\ IsTrimOf(row.name, n)
    /\ \A p \in Ids(projects), n \in AnyName :
          LET r == TaskManager_create_task(DB, p, n, None, "medium", "todo",
                       0, None)
          IN  IF IsBlank(n) THEN r.exc = "ValueError"
              ELSE /\ r.exc = "none"
                   /\ \E row \in r.db.tasks :
                         row.id = r.id /\ IsTrimOf(row.name, n)

\* create_project was given the name " b " and stored it as "b".
C5_Witness ==
    /\ ret.op = "create_project" /\ ret.exc = "none"
    /\ \E row \in projects : row.id = ret.id /\ row.name = <<"b">>

(***************************************************************************)
(* C6-C8: value invariants of the stored rows.                             *)
(***************************************************************************)
\* C6: in every reachable state every stored task's progress is an integer
\* between 0 and 100.
C6_ProgressBound ==
    \A t \in tasks : t.progress \in Int /\ 0 <= t.progress /\ t.progress <= 100

\* C7: in every reachable state every stored task's status is one of the four
\* statuses and its priority one of the three priorities.
C7_Enumerations ==
    \A t \in tasks :
        /\ t.status \in {"todo", "in_progress", "review", "done"}
        /\ t.priority \in {"low", "medium", "high"}

\* C8: in every state reachable through create_project and update_project
\* every stored project's name is a non-empty string.
C8_ProjectNameNonEmpty == \A p \in projects : p.name # << >>

(***************************************************************************)
(* C9: project ids.                                                        *)
(***************************************************************************)
\* C9: every project id the store assigns, and so every id create_project
\* returns, is greater than every project id assigned before.
C9_FreshProjectIds ==
    [][/\ \A i \in Ids(projects') \ Ids(projects) : \A j \in issued : i > j
       /\ (ret'.op = "create_project" /\ ret'.exc = "none")
              => /\ ret'.id \in Ids(projects')
                 /\ \A j \in issued : ret'.id > j]_vars

\* Project 1, the most recently created, was deleted, and create_project then
\* returned id 2.
C9_Witness ==
    /\ ret.op = "create_project" /\ ret.exc = "none" /\ ret.id = 2
    /\ Ids(projects) = {2}
    /\ issued = {1, 2}

(***************************************************************************)
(* C10: updates without fields.                                            *)
(***************************************************************************)
\* C10: update_project and update_task with an empty field map, on a stored
\* id or not, return false and leave every stored row unchanged.
C10_EmptyUpdate ==
    /\ \A p \in ProjectIdInputs :
          LET r == TaskManager_update_project(DB, p, << >>)
          IN  r.exc = "none" /\ ~ r.ok /\ SameRows(r)
    /\ \A t \in TaskIdInputs :
          LET r == TaskManager_update_task(DB, t, << >>)
          IN  r.exc = "none" /\ ~ r.ok /\ SameRows(r)

\* update_task was called without fields while tasks are stored.
C10_Witness ==
    /\ ret.op = "update_task" /\ DOMAIN ret.kwargs = {}
    /\ ret.exc = "none" /\ ~ ret.ok
    /\ tasks # {}

(***************************************************************************)
(* C11-C13: ids that are not stored, status transitions, timestamps.       *)
(***************************************************************************)
\* A field map update_task accepts: its priority, status and progress, where
\* given, are valid.
IsValidPatch(kwargs) ==
    /\ "priority" \in DOMAIN kwargs => kwargs.priority \in {"low", "medium", "high"}
    /\ "status" \in DOMAIN kwargs
          => kwargs.status \in {"todo", "in_progress", "review", "done"}
    /\ "progress" \in DOMAIN kwargs
          => 0 <= kwargs.progress /\ kwargs.progress <= 100

\* C11: for an id that is not stored, get_project and get_task return absent,
\* and update_project, delete_project, update_task with valid fields and
\* delete_task return false without raising and leave the store as it was.
C11_NotFound ==
    /\ \A p \in (0 .. seq_projects + 1) \ Ids(projects) :
          /\ TaskManager_get_project(DB, p) = None
          /\ \A kwargs \in ProjectPatches :
                LET r == TaskManager_update_project(DB, p, kwargs)
                IN  r.exc = "none" /\ ~ r.ok /\ r.db = DB
          /\ LET r == TaskManager_delete_project(DB, p)
             IN  r.exc = "none" /\ ~ r.ok /\ r.db = DB
    /\ \A t \in (0 .. seq_tasks + 1) \ Ids(tasks) :
          /\ TaskManager_get_task(DB, t) = None
          /\ \A kwargs \in {k \in AnyTaskPatch : IsValidPatch(k)} :
                LET r == TaskManager_update_task(DB, t, kwargs)
                IN  r.exc = "none" /\ ~ r.ok /\ r.db = DB
          /\ LET r == TaskManager_delete_task(DB, t)
             IN  r.exc = "none" /\ ~ r.ok /\ r.db = DB

\* delete_task returned false for an id that is not stored, while a task is
\* stored and a task was deleted before.
C11_Witness ==
    /\ ret.op = "delete_task" /\ ret.exc = "none" /\ ~ ret.ok
    /\ tasks # {}
    /\ Ids(tasks) # 1 .. seq_tasks

\* C12: for every stored task, whatever its status, and every one of the four
\* statuses s (its own and the earlier ones included), update_task_status
\* returns true and get_task then reports status s.
C12_StatusTransitions ==
    \A t \in tasks, s \in {"todo", "in_progress", "review", "done"} :
        LET r == TaskManager_update_task_status(DB, t.id, s)
        IN  /\ r.exc = "none" /\ r.ok
            /\ TaskManager_get_task(r.db, t.id) # None
            /\ TaskManager_get_task(r.db, t.id)[1].status = s

\* update_task_status moved a task created with status "review" back to
\* "todo" and returned true.
C12_Witness ==
    /\ ret.op = "update_task_status" /\ ret.exc = "none" /\ ret.ok
    /\ \E t \in tasks :
          /\ t.status = "todo" /\ t.progress = 100
          /\ t.updated_at = isoformat(now - 1)

\* before and after are the rows of one table around an update call on id
\* that was made when the clock read t: if the call returned true, row id
\* carries the same created_at and the updated_at of that write, which is not
\* the one it carried, and the other rows are as they were; if it returned
\* false, no row changed.
Stamped(before, after, id, ok, t) ==
    IF ok
    THEN /\ Ids(after) = Ids(before)
         /\ \A old \in before, new \in after :
               old.id = new.id =>
                   IF old.id = id
                   THEN /\ new.created_at = old.created_at
                        /\ new.updated_at = isoformat(t)
                        /\ new.updated_at # old.updated_at
                   ELSE new = old
    ELSE after = before

\* C13: every update_project, update_task, update_task_status and
\* update_task_progress call that returns true sets the row's updated_at to
\* the time of that write, a value it did not carry before, and leaves its
\* created_at; a call that returns false (no fields, an id not stored) leaves
\* every row's updated_at as it was.
C13_Timestamps ==
    /\ \A p \in ProjectIdInputs,
          kwargs \in ProjectPatches \cup {[color |-> "#000000"],
                                           [description |-> <<"e">>]} :
          LET r == TaskManager_update_project(DB, p, kwargs)
          IN  /\ r.exc = "none"
              /\ Stamped(projects, r.db.projects, p, r.ok, now)
              /\ r.db.tasks = tasks
    /\ \A t \in TaskIdInputs, kwargs \in {k \in AnyTaskPatch : IsValidPatch(k)} :
          LET r == TaskManager_update_task(DB, t, kwargs)
          IN  /\ r.exc = "none"
              /\ Stamped(tasks, r.db.tasks, t, r.ok, now)
              /\ r.db.projects = projects
    /\ \A t \in TaskIdInputs, st \in Range(STATUSES) :
          LET r == TaskManager_update_task_status(DB, t, st)
          IN  r.exc = "none" /\ Stamped(tasks, r.db.tasks, t, r.ok, now)
    /\ \A t \in TaskIdInputs, g \in {0, 50, 100} :
          LET r == TaskManager_update_task_progress(DB, t, g)
          IN  r.exc = "none" /\ Stamped(tasks, r.db.tasks, t, r.ok, now)

\* The only project, created at time 0 and stamped by an update at time 1,
\* was updated again at time 2 and carries the stamp of that write.
C13_Witness ==
    /\ ret.op = "update_project" /\ ret.exc = "none" /\ ret.ok
    /\ now = 3 /\ seq_projects = 1 /\ seq_tasks = 0
    /\ \E p \in projects :
          /\ p.updated_at = isoformat(2)
          /\ p.created_at = CURRENT_TIMESTAMP(0)

(***************************************************************************)
(* Backup and restore.  export_backup writes a file and import_backup      *)
(* reads one; ret.file is the file the last export_backup left behind, and *)
(* ret.fresh the database of a second, newly created store into which that *)
(* file was imported.                                                      *)
(***************************************************************************)
\* The outcomes of export_backup: the document is written and true returned,
\* or open() fails and no file is there, or a write fails and the file holds
\* a truncated document; both failures are OSError and yield false.
TaskManager_export_backup(db) ==
    {[file |-> doc, exc |-> "none", ok |-> TRUE] : doc \in Storage_export_to_json(db)}
    \cup {[file |-> [kind |-> k], exc |-> "none", ok |-> FALSE] :
            k \in {"unreadable", "malformed"}}

BackupProjectInputs ==
    {[name |-> <<"q">>, description |-> <<"d">>, color |-> None]}

BackupTaskInputs ==
    {BaseTask,
     [name |-> <<"b">>, due_date |-> Some(<<"0", "1">>), priority |-> "high",
      status |-> "review", progress |-> 100, assignee |-> Some(<<"x">>)]}

\* Files handed to import_backup in the backup behaviours: no file at all,
\* text that is not JSON, a document whose second project entry has a field
\* create_project does not take, a document whose project entry has id 0,
\* and a document of two projects with a task each and a task of neither.
BackupFiles ==
    {[kind |-> "unreadable"],
     [kind |-> "malformed"],
     Document(<<ProjectEntry(1, <<"p">>), [id |-> 2, title |-> <<"q">>]>>, << >>),
     Document(<<ProjectEntry(0, <<"z">>)>>,
              <<TaskEntry(1, 0, "low", "todo", 0)>>),
     Document(<<ProjectEntry(5, <<"p">>), ProjectEntry(2, <<"q">>)>>,
              <<TaskEntry(1, 2, "low", "todo", 0),
                TaskEntry(2, 7, "medium", "review", 50),
                TaskEntry(3, 5, "high", "done", 100)>>)}

backup_create_project(in) ==
    Call(MaxBackupClock, "create_project", << >>,
         TaskManager_create_project(DB, in.name, in.description, in.color))

backup_create_task(project_id, in) ==
    Call(MaxBackupClock, "create_task", << >>,
         TaskManager_create_task(DB, project_id, in.name, in.due_date,
             in.priority, in.status, in.progress, in.assignee))

backup_delete_project(project_id) ==
    Call(MaxBackupClock, "delete_project", << >>,
         TaskManager_delete_project(DB, project_id))

backup_import_backup(file) ==
    Call(MaxBackupClock, "import_backup", << >>, TaskManager_import_backup(DB, file))

export_backup(out) ==
    /\ ret' = [op |-> "export_backup", kwargs |-> << >>, exc |-> out.exc,
               id |-> 0, ok |-> out.ok, file |-> out.file]
    /\ UNCHANGED <<projects, tasks, seq_projects, seq_tasks, now, issued, conn>>

\* import_backup of the file just exported, called on a store newly created
\* on another database path.
import_backup_fresh ==
    /\ ret.op = "export_backup"
    /\ LET r == TaskManager_import_backup([EmptyDB EXCEPT !.now = now], ret.file)
       IN  ret' = [op |-> "import_backup_fresh", kwargs |-> << >>, exc |-> r.exc,
                   id |-> 0, ok |-> r.ok, file |-> ret.file, fresh |-> r.db]
    /\ UNCHANGED <<projects, tasks, seq_projects, seq_tasks, now, issued, conn>>

BackupCreateProject == \E in \in BackupProjectInputs : backup_create_project(in)

BackupCreateTask ==
    \E project_id \in Ids(projects), in \in BackupTaskInputs :
        backup_create_task(project_id, in)

BackupDeleteProject == \E project_id \in Ids(projects) : backup_delete_project(project_id)

BackupImportBackup == \E file \in BackupFiles : backup_import_backup(file)

ExportBackup == \E out \in TaskManager_export_backup(DB) : export_backup(out)

ImportBackupFresh == import_backup_fresh

NextBackup ==
    \/ BackupCreateProject
    \/ BackupCreateTask
    \/ BackupDeleteProject
    \/ BackupImportBackup
    \/ ExportBackup
    \/ ImportBackupFresh

SpecBackup == Init /\ [][NextBackup]_vars

(***************************************************************************)
(* C14-C16: backup round trip, remapping on import, failure signalling.    *)
(***************************************************************************)
SameProject(p, q) ==
    p.name = q.name /\ p.description = q.description /\ p.color = q.color

SameTask(t, u) ==
    /\ t.name = u.name /\ t.due_date = u.due_date /\ t.priority = u.priority
    /\ t.status = u.status /\ t.progress = u.progress /\ t.assignee = u.assignee

IsBijection(f, A, B) ==
    /\ \A a1, a2 \in A : f[a1] = f[a2] => a1 = a2
    /\ {f[a] : a \in A} = B

\* C14: after export_backup and import_backup of the exported document into
\* a newly created store, the projects of the two stores correspond one to
\* one with equal name, description and color, the tasks correspond one to
\* one with equal name, due_date, priority, status, progress and assignee,
\* each imported task's project is the image of the original task's project,
\* and two imported tasks share a project exactly when their originals do.
C14_RoundTrip ==
    (ret.op = "import_backup_fresh" /\ ret.file.kind = "object") =>
        /\ ret.exc = "none" /\ ret.ok
        /\ \E f \in [Ids(projects) -> Ids(ret.fresh.projects)] :
              /\ IsBijection(f, Ids(projects), Ids(ret.fresh.projects))
              /\ \A p \in projects, q \in ret.fresh.projects :
                    q.id = f[p.id] => SameProject(p, q)
              /\ \E g \in [Ids(tasks) -> Ids(ret.fresh.tasks)] :
                    /\ IsBijection(g, Ids(tasks), Ids(ret.fresh.tasks))
                    /\ \A t \in tasks, u \in ret.fresh.tasks :
                          u.id = g[t.id] =>
                              SameTask(t, u) /\ u.project_id = f[t.project_id]
                    /\ \A t1, t2 \in tasks, u1, u2 \in ret.fresh.tasks :
                          (u1.id = g[t1.id] /\ u2.id = g[t2.id]) =>
                              (u1.project_id = u2.project_id
                                   <=> t1.project_id = t2.project_id)

\* A store of two projects with a task each was exported and imported into a
\* new store, where a project got another id than the one it was exported
\* with.
C14_Witness ==
    /\ ret.op = "import_backup_fresh" /\ ret.exc = "none" /\ ret.ok
    /\ Cardinality(projects) = 2
    /\ Cardinality({t.project_id : t \in tasks}) = 2
    /\ \E p \in projects, q \in ret.fresh.projects :
          SameProject(p, q) /\ p.id # q.id
    /\ \E t \in tasks, u \in ret.fresh.tasks :
          SameTask(t, u) /\ t.project_id # u.project_id

\* A well-formed backup document: an object whose project entries and task
\* entries carry exactly the fields export writes.
IsBackupDocument(file) ==
    /\ file.kind = "object"
    /\ DOMAIN file.data = {"projects", "tasks"}
    /\ \A k \in DOMAIN file.data.projects :
          DOMAIN file.data.projects[k] = DOMAIN ProjectEntry(0, << >>)
    /\ \A i \in DOMAIN file.data.tasks :
          DOMAIN file.data.tasks[i] = DOMAIN TaskEntry(0, 0, "low", "todo", 0)

\* C15: import_backup of a well-formed document returns true, inserts every
\* project entry under a new id, and inserts exactly the task entries whose
\* project_id is the id of some project entry of the document, each under
\* the new id of such a project; the other task entries are not inserted.
C15_ImportRemapping ==
    [][\A file \in {f \in BackupFiles : IsBackupDocument(f)} :
          backup_import_backup(file) =>
              LET pl == file.data.projects
                  tl == file.data.tasks
                  matched == {i \in DOMAIN tl :
                                \E k \in DOMAIN pl : pl[k].id = tl[i].project_id}
                  new_projects == projects' \ projects
                  new_tasks == tasks' \ tasks
              IN  /\ ret'.exc = "none" /\ ret'.ok
                  /\ \E pid \in [DOMAIN pl -> Ids(new_projects)] :
                        /\ IsBijection(pid, DOMAIN pl, Ids(new_projects))
                        /\ \A k \in DOMAIN pl : \E q \in new_projects :
                              q.id = pid[k] /\ SameProject(q, pl[k])
                        /\ \E tid \in [matched -> Ids(new_tasks)] :
                              /\ IsBijection(tid, matched, Ids(new_tasks))
                              /\ \A i \in matched : \E u \in new_tasks :
                                    /\ u.id = tid[i] /\ SameTask(u, tl[i])
                                    /\ \E k \in DOMAIN pl :
                                          /\ pl[k].id = tl[i].project_id
                                          /\ u.project_id = pid[k]]_vars

\* C16: import_backup returns without raising, and returns false when the
\* file cannot be read, is not JSON, or has a project or task entry with a
\* missing or unexpected field; export_backup returns without raising, and
\* returns false when writing the file failed.
C16_FailureSignalling ==
    [][/\ \A file \in BackupFiles :
             backup_import_backup(file) =>
                 /\ ret'.exc = "none"
                 /\ ~ IsBackupDocument(file) => ~ ret'.ok
       /\ import_backup_fresh =>
             /\ ret'.exc = "none"
             /\ ~ IsBackupDocument(ret.file) => ~ ret'.ok
       /\ \A out \in TaskManager_export_backup(DB) :
             export_backup(out) =>
                 /\ ret'.exc = "none"
                 /\ ~ IsBackupDocument(out.file) => ~ ret'.ok]_vars

(***************************************************************************)
(* The default color of a project: create_project and delete_project       *)
(* alone, for as many projects as it takes to use the palette up.          *)
(***************************************************************************)
ColorProjectInputs ==
    {[name |-> <<"p">>, description |-> << >>, color |-> None],
     [name |-> <<"p">>, description |-> << >>, color |-> Some("#000000")]}

color_create_project(in) ==
    Call(MaxColorClock, "create_project", << >>,
         TaskManager_create_project(DB, in.name, in.description, in.color))

color_delete_project(project_id) ==
    Call(MaxColorClock, "delete_project", << >>,
         TaskManager_delete_project(DB, project_id))

ColorCreateProject == \E in \in ColorProjectInputs : color_create_project(in)

ColorDeleteProject == \E project_id \in Ids(projects) : color_delete_project(project_id)

NextColors == ColorCreateProject \/ ColorDeleteProject

SpecColors == Init /\ [][NextColors]_vars

(***************************************************************************)
(* C17: default color rotation.                                            *)
(***************************************************************************)
\* C17: create_project without a color stores the palette color of index
\* n mod 6, n being the number of projects stored when it is called: the
\* first color for the first project of an empty store, the second for the
\* second; create_project with a color stores that color.
C17_DefaultColor ==
    LET palette == <<"#3B82F6", "#10B981", "#F59E0B", "#EF4444", "#8B5CF6", "#EC4899">>
        n == Cardinality(projects)
        stored(r) == CHOOSE row \in r.db.projects : row.id = r.id
    IN  /\ LET r == TaskManager_create_project(DB, <<"p">>, << >>, None)
           IN  /\ r.exc = "none"
               /\ stored(r).color = palette[(n % 6) + 1]
               /\ n = 0 => stored(r).color = "#3B82F6"
               /\ n = 1 => stored(r).color = "#10B981"
        /\ \A color \in {"#000000", "#3B82F6", "red"} :
              LET r == TaskManager_create_project(DB, <<"p">>, << >>, Some(color))
              IN  r.exc = "none" /\ stored(r).color = color

\* A project was created while six were stored, none of them with the
\* explicit color, and got the first palette color again.
C17_Witness ==
    /\ ret.op = "create_project" /\ ret.exc = "none"
    /\ Cardinality(projects) = 7
    /\ \E row \in projects : row.id = ret.id /\ row.color = "#3B82F6"
    /\ \A row \in projects : row.color # "#000000"

(***************************************************************************)
(* Derived views (TaskManager.get_tasks_sorted, get_project_stats).  A     *)
(* read leaves the store alone; ret records its arguments in kwargs and    *)
(* the value it returned in result.                                        *)
(***************************************************************************)
\* The characters of the model's strings in code point order: Python
\* compares strings character by character by code point.
CodePoints ==
    <<"\t", "\n", " ", "#", "%", "-", "0", "1", "2", "3", "4", "5", "6", "7",
      "8", "9", "A", "B", "_", "a", "b", "c", "d", "p", "q", "t", "x", "y", "z">>

ord(c) == CHOOSE i \in DOMAIN CodePoints : CodePoints[i] = c

\* a < b on Python strings
StrLess(a, b) ==
    \E i \in 1 .. Len(b) :
        /\ i <= Len(a) + 1
        /\ \A j \in 1 .. i - 1 : a[j] = b[j]
        /\ i <= Len(a) => ord(a[i]) < ord(b[i])

\* list.sort(key=...): the elements in ascending key order, elements with
\* equal keys in the order they had (the sort is stable).  less[i, j] tells
\* whether the key of list[i] is less than the key of list[j].
Sort(list, less) ==
    LET place == [i \in DOMAIN list |->
                     1 + Cardinality({j \in DOMAIN list :
                             less[j, i] \/ (~ less[i, j] /\ j < i)})]
    IN  [k \in DOMAIN list |-> list[CHOOSE i \in DOMAIN list : place[i] = k]]

priority_order(t) ==
    CASE t.priority = "high" -> 0
      [] t.priority = "medium" -> 1
      [] t.priority = "low" -> 2
      [] OTHER -> 1

\* t["due_date"] or "9999-12-31": None and the empty string are falsy
due_date_key(t) ==
    IF t.due_date = None \/ t.due_date = Some(<< >>)
    THEN <<"9", "9", "9", "9", "-", "1", "2", "-", "3", "1">>
    ELSE t.due_date[1]

status_order(t) ==
    IF t.status \in Range(STATUSES)
    THEN (CHOOSE i \in DOMAIN STATUSES : STATUSES[i] = t.status) - 1
    ELSE 0

LessByPriority(t, u) == priority_order(t) < priority_order(u)

LessByDueDate(t, u) == StrLess(due_date_key(t), due_date_key(u))

LessByStatus(t, u) == status_order(t) < status_order(u)

LessByName(t, u) == StrLess(t.name, u.name)

TaskManager_get_tasks_by_project(db, project_id) ==
    Storage_get_tasks_by_project(db, project_id)

\* A variant that returns the list as the store gave it.
TaskManager_get_tasks_sorted_creation_order(db, project_id, sort_by) ==
    TaskManager_get_tasks_by_project(db, project_id)

\* The lists get_tasks_sorted can return: one for each order in which the
\* store can give the project's tasks.
TaskManager_get_tasks_sorted(db, project_id, sort_by) ==
    {CASE sort_by = "priority" ->
              Sort(list, [i, j \in DOMAIN list |-> LessByPriority(list[i], list[j])])
       [] sort_by = "due_date" ->
              Sort(list, [i, j \in DOMAIN list |-> LessByDueDate(list[i], list[j])])
       [] sort_by = "status" ->
              Sort(list, [i, j \in DOMAIN list |-> LessByStatus(list[i], list[j])])
       [] sort_by = "name" ->
              Sort(list, [i, j \in DOMAIN list |-> LessByName(list[i], list[j])])
       [] OTHER -> list :
     list \in TaskManager_get_tasks_by_project(db, project_id)}

RECURSIVE sum(_)
sum(numbers) == IF numbers = << >> THEN 0 ELSE Head(numbers) + sum(Tail(numbers))

\* x / y on Python integers is the exact quotient (up to the rounding of a
\* float); it is kept as the fraction num / den.
TrueDiv(x, y) == [num |-> x, den |-> y]

\* A variant that takes the average with floor division.
TaskManager_get_project_stats_floor_average(db, project_id) ==
    LET tasks_ == CHOOSE list \in TaskManager_get_tasks_by_project(db, project_id) : TRUE
        count(field, value) ==
            Cardinality({i \in DOMAIN tasks_ : tasks_[i][field] = value})
    IN  [total |-> Len(tasks_),
         by_status |-> [st \in Range(STATUSES) |-> count("status", st)],
         by_priority |-> [pr \in Range(PRIORITIES) |-> count("priority", pr)],
         avg_progress |->
             IF tasks_ # << >>
             THEN [num |-> sum([i \in DOMAIN tasks_ |-> tasks_[i].progress])
                              \div Len(tasks_),
                   den |-> 1]
             ELSE [num |-> 0, den |-> 1]]

TaskManager_get_project_stats(db, project_id) ==
    LET tasks_ == CHOOSE list \in TaskManager_get_tasks_by_project(db, project_id) : TRUE
        count(field, value) ==
            Cardinality({i \in DOMAIN tasks_ : tasks_[i][field] = value})
    IN  [total |-> Len(tasks_),
         by_status |-> [st \in Range(STATUSES) |-> count("status", st)],
         by_priority |-> [pr \in Range(PRIORITIES) |-> count("priority", pr)],
         avg_progress |->
             IF tasks_ # << >>
             THEN TrueDiv(sum([i \in DOMAIN tasks_ |-> tasks_[i].progress]),
                          Len(tasks_))
             ELSE [num |-> 0, den |-> 1]]

\* A variant in which a read marks the tasks with the time it read them.
Read_stamping(op, kwargs, result) ==
    /\ ret' = [op |-> op, kwargs |-> kwargs, exc |-> "none", id |-> 0,
               ok |-> TRUE, result |-> result]
    /\ tasks' = {[t EXCEPT !.updated_at = isoformat(now)] : t \in tasks}
    /\ UNCHANGED <<projects, seq_projects, seq_tasks, now, issued, conn>>

\* A read with arguments kwargs that returned result.
Read(op, kwargs, result) ==
    /\ ret' = [op |-> op, kwargs |-> kwargs, exc |-> "none", id |-> 0,
               ok |-> TRUE, result |-> result]
    /\ UNCHANGED <<projects, tasks, seq_projects, seq_tasks, now, issued, conn>>

ViewProjectInputs == {[name |-> <<"p">>, description |-> << >>, color |-> None]}

\* Tasks of every priority, without a due date and with the due dates
\* 2023-12-31, 2024-01-05 and 9999-12-31.
ViewTaskInputs ==
    {[name |-> <<"a">>, due_date |-> None, priority |-> "low",
      status |-> "todo", progress |-> 0, assignee |-> None],
     [name |-> <<"b">>,
      due_date |-> Some(<<"2", "0", "2", "4", "-", "0", "1", "-", "0", "5">>),
      priority |-> "high", status |-> "done", progress |-> 100,
      assignee |-> Some(<<"x">>)],
     [name |-> <<"c">>,
      due_date |-> Some(<<"2", "0", "2", "3", "-", "1", "2", "-", "3", "1">>),
      priority |-> "medium", status |-> "review", progress |-> 50,
      assignee |-> None],
     [name |-> <<"d">>,
      due_date |-> Some(<<"9", "9", "9", "9", "-", "1", "2", "-", "3", "1">>),
      priority |-> "medium", status |-> "in_progress", progress |-> 33,
      assignee |-> None]}

SortByInputs == {"priority", "due_date", "status", "name", "created_at"}

view_create_project(in) ==
    Call(MaxViewClock, "create_project", << >>,
         TaskManager_create_project(DB, in.name, in.description, in.color))

view_create_task(project_id, in) ==
    Call(MaxViewClock, "create_task", << >>,
         TaskManager_create_task(DB, project_id, in.name, in.due_date,
             in.priority, in.status, in.progress, in.assignee))

get_tasks_sorted(project_id, sort_by) ==
    \E result \in TaskManager_get_tasks_sorted(DB, project_id, sort_by) :
        Read("get_tasks_sorted", [project_id |-> project_id, sort_by |-> sort_by],
             result)

get_project_stats(project_id) ==
    Read("get_project_stats", [project_id |-> project_id],
         TaskManager_get_project_stats(DB, project_id))

ViewCreateProject == \E in \in ViewProjectInputs : view_create_project(in)

ViewCreateTask ==
    \E project_id \in Ids(projects), in \in ViewTaskInputs :
        view_create_task(project_id, in)

GetTasksSorted ==
    \E project_id \in ProjectIdInputs, sort_by \in SortByInputs :
        get_tasks_sorted(project_id, sort_by)

GetProjectStats == \E project_id \in ProjectIdInputs : get_project_stats(project_id)

NextViews ==
    \/ ViewCreateProject
    \/ ViewCreateTask
    \/ GetTasksSorted
    \/ GetProjectStats

SpecViews == Init /\ [][NextViews]_vars

(***************************************************************************)
(* C18-C20: sorted lists and statistics.                                   *)
(***************************************************************************)
\* list holds every row of rows exactly once
ListsExactly(list, rows) ==
    /\ Len(list) = Cardinality(rows)
    /\ Range(list) = rows

\* C18: get_tasks_sorted(project, "priority") returns every task of the
\* project exactly once, every high-priority task before every
\* medium-priority one and every medium-priority task before every
\* low-priority one.
C18_SortedByPriority ==
    (ret.op = "get_tasks_sorted" /\ ret.kwargs.sort_by = "priority") =>
        LET list == ret.result
        IN  /\ ListsExactly(list, {t \in tasks : t.project_id = ret.kwargs.project_id})
            /\ \A i, j \in DOMAIN list :
                  (<<list[i].priority, list[j].priority>> \in
                       {<<"high", "medium">>, <<"medium", "low">>, <<"high", "low">>})
                      => i < j

\* Tasks created with priorities low, high and medium, in that order, were
\* returned in the order high, medium, low.
C18_Witness ==
    /\ ret.op = "get_tasks_sorted" /\ ret.kwargs.sort_by = "priority"
    /\ Len(ret.result) = 3
    /\ ret.result[1].priority = "high" /\ ret.result[1].id = 2
    /\ ret.result[2].priority = "medium" /\ ret.result[2].id = 3
    /\ ret.result[3].priority = "low" /\ ret.result[3].id = 1

\* C19: get_tasks_sorted(project, "due_date") returns every task of the
\* project exactly once, the tasks that have a due date in ascending order
\* of due date, and every task without a due date after all the tasks that
\* have one.
C19_SortedByDueDate ==
    (ret.op = "get_tasks_sorted" /\ ret.kwargs.sort_by = "due_date") =>
        LET list == ret.result
        IN  /\ ListsExactly(list, {t \in tasks : t.project_id = ret.kwargs.project_id})
            /\ \A i, j \in DOMAIN list :
                  (list[i].due_date # None /\ list[j].due_date # None /\ i < j)
                      => ~ StrLess(list[j].due_date[1], list[i].due_date[1])
            /\ \A i, j \in DOMAIN list :
                  (list[i].due_date # None /\ list[j].due_date = None) => i < j

RECURSIVE ProgressOf(_)
ProgressOf(rows) ==
    IF rows = {} THEN 0
    ELSE LET row == CHOOSE r \in rows : TRUE
         IN  row.progress + ProgressOf(rows \ {row})

NoCase(c) == IF c = "A" THEN "a" ELSE IF c = "B" THEN "b" ELSE c

\* text LIKE pattern: % stands for any run of characters, _ for any one
\* character, every other character for itself in either case.
RECURSIVE Like(_, _)
Like(text, pattern) ==
    IF pattern = << >> THEN text = << >>
    ELSE IF Head(pattern) = "%"
    THEN \E k \in 0 .. Len(text) :
             Like(SubSeq(text, k + 1, Len(text)), Tail(pattern))
    ELSE /\ text # << >>
         /\ Head(pattern) = "_" \/ NoCase(Head(pattern)) = NoCase(Head(text))
         /\ Like(Tail(text), Tail(pattern))

\* Python's truth value of an optional argument: None is false and so is
\* the empty value (<< >> for a text, "" for a status or a priority).
Truthy(arg, empty) == arg # None /\ arg[1] # empty

Storage_search_tasks(db, project_id, keyword, status, assignee, priority) ==
    OrderByCreatedAtDesc(
        {t \in db.tasks :
            /\ t.project_id = project_id
            /\ Truthy(keyword, << >>) =>
                   Like(t.name, <<"%">> \o keyword[1] \o <<"%">>)
            /\ Truthy(status, "") => t.status = status[1]
            /\ Truthy(assignee, << >>) => t.assignee = Some(assignee[1])
            /\ Truthy(priority, "") => t.priority = priority[1]})

TaskManager_get_all_projects(db) == Storage_get_all_projects(db)

TaskManager_search_tasks(db, project_id, keyword, status, assignee, priority) ==
    Storage_search_tasks(db, project_id, keyword, status, assignee, priority)

\* A read with arguments kwargs that raised exc.
ReadFailed(op, kwargs, exc) ==
    /\ ret' = [op |-> op, kwargs |-> kwargs, exc |-> exc, id |-> 0,
               ok |-> FALSE, result |-> << >>]
    /\ UNCHANGED <<projects, tasks, seq_projects, seq_tasks, now, issued, conn>>

ReadTaskInputs ==
    {[name |-> <<"A", "b">>, due_date |-> None, priority |-> "low",
      status |-> "todo", progress |-> 0, assignee |-> None],
     [name |-> <<"b">>, due_date |-> Some(<<"0", "1">>), priority |-> "high",
      status |-> "done", progress |-> 100, assignee |-> Some(<<"x">>)]}

ReadFiles ==
    {Document(<<ProjectEntry(3, <<"p">>)>>,
              <<TaskEntry(1, 3, "urgent", "archived", 101)>>)}

NoFilter == [keyword |-> None, status |-> None, assignee |-> None,
             priority |-> None]

SearchInputs ==
    {NoFilter,
     [NoFilter EXCEPT !.keyword = Some(<< >>)],
     [NoFilter EXCEPT !.keyword = Some(<<"b">>)],
     [NoFilter EXCEPT !.keyword = Some(<<"a", "b">>)],
     [NoFilter EXCEPT !.keyword = Some(<<"_">>)],
     [NoFilter EXCEPT !.status = Some("done")],
     [NoFilter EXCEPT !.status = Some("archived")],
     [NoFilter EXCEPT !.assignee = Some(<<"x">>)],
     [NoFilter EXCEPT !.priority = Some("high")],
     [NoFilter EXCEPT !.priority = Some("urgent")],
     [keyword |-> Some(<<"b">>), status |-> Some("done"),
      assignee |-> Some(<<"x">>), priority |-> Some("high")],
     [keyword |-> Some(<<"b">>), status |-> Some("todo"),
      assignee |-> Some(<<"x">>), priority |-> None]}

get_project(project_id) ==
    Read("get_project", [project_id |-> project_id],
         TaskManager_get_project(DB, project_id))

get_all_projects(result) == Read("get_all_projects", << >>, result)

get_task(task_id) ==
    Read("get_task", [task_id |-> task_id], TaskManager_get_task(DB, task_id))

get_tasks_by_project(project_id, result) ==
    Read("get_tasks_by_project", [project_id |-> project_id], result)

read_tasks_by_status(project_id, status) ==
    LET r == TaskManager_get_tasks_by_status(DB, project_id, status)
        kwargs == [project_id |-> project_id, status |-> status]
    IN  IF r.exc # "none" THEN ReadFailed("get_tasks_by_status", kwargs, r.exc)
        ELSE \E result \in Storage_get_tasks_by_status(DB, project_id, status) :
                 Read("get_tasks_by_status", kwargs, result)

search_tasks(project_id, in, result) ==
    Read("search_tasks", [project_id |-> project_id] @@ in, result)

ReadCreateProject ==
    \E in \in ViewProjectInputs :
        Call(MaxReadClock, "create_project", << >>,
             TaskManager_create_project(DB, in.name, in.description, in.color))

ReadCreateTask ==
    \E project_id \in ProjectIdInputs, in \in ReadTaskInputs :
        Call(MaxReadClock, "create_task", << >>,
             TaskManager_create_task(DB, project_id, in.name, in.due_date,
                 in.priority, in.status, in.progress, in.assignee))

ReadImportBackup ==
    \E file \in ReadFiles :
        Call(MaxReadClock, "import_backup", << >>,
             TaskManager_import_backup(DB, file))

GetProject == \E project_id \in ProjectIdInputs : get_project(project_id)

GetAllProjects ==
    \E result \in TaskManager_get_all_projects(DB) : get_all_projects(result)

GetTask == \E task_id \in TaskIdInputs : get_task(task_id)

GetTasksByProject ==
    \E project_id \in ProjectIdInputs :
        \E result \in TaskManager_get_tasks_by_project(DB, project_id) :
            get_tasks_by_project(project_id, result)

ReadTasksByStatus ==
    \E project_id \in ProjectIdInputs, status \in StatusInputs :
        read_tasks_by_status(project_id, status)

SearchTasks ==
    \E project_id \in ProjectIdInputs, in \in SearchInputs :
        \E result \in TaskManager_search_tasks(DB, project_id, in.keyword,
                                               in.status, in.assignee,
                                               in.priority) :
            search_tasks(project_id, in, result)

NextReads ==
    \/ ReadCreateProject
    \/ ReadCreateTask
    \/ ReadImportBackup
    \/ GetProject
    \/ GetAllProjects
    \/ GetTask
    \/ GetTasksByProject
    \/ ReadTasksByStatus
    \/ SearchTasks
    \/ GetTasksSorted
    \/ GetProjectStats
    \/ ExportBackup

SpecReads == Init /\ [][NextReads]_vars

(***************************************************************************)
(* C21-C23: status lists and search.                                       *)
(***************************************************************************)
\* the caller gave the filter arg (empty is the empty value of its kind)
Given(arg, empty) == arg # None /\ arg[1] # empty

\* k occurs in text, character for character
Contains(text, k) ==
    \E i \in 0 .. (Len(text) - Len(k)) : SubSeq(text, i + 1, i + Len(k)) = k

\* the filter value arg is given and is none of the values
Unrecognized(arg, values) == Given(arg, "") /\ arg[1] \notin Range(values)

\* C21: get_tasks_by_status fails with a validation error for every status
\* outside the four and otherwise returns exactly the project's tasks with
\* that status; search_tasks never fails on a status or priority filter
\* outside the recognized values and returns an empty result for it.
C21_StatusFilters ==
    /\ ret.op = "get_tasks_by_status" =>
           IF ret.kwargs.status \notin Range(STATUSES)
           THEN ret.exc = "ValueError"
           ELSE /\ ret.exc = "none"
                /\ ListsExactly(ret.result,
                       {t \in tasks : /\ t.project_id = ret.kwargs.project_id
                                      /\ t.status = ret.kwargs.status})
    /\ ret.op = "search_tasks" =>
           /\ ret.exc = "none"
           /\ \/ Unrecognized(ret.kwargs.status, STATUSES)
              \/ Unrecognized(ret.kwargs.priority, PRIORITIES)
              => ret.result = << >>

\* C22: search_tasks returns exactly the tasks of the project that satisfy
\* every filter given (name contains the keyword, status, assignee and
\* priority equal the given values), each once; with no filter given the
\* result is a result of get_tasks_by_project; tasks of other projects are
\* never returned.
C22_SearchConjunction ==
    ret.op = "search_tasks" =>
        LET a == ret.kwargs
        IN  /\ ListsExactly(ret.result,
                   {t \in tasks :
                       /\ t.project_id = a.project_id
                       /\ Given(a.keyword, << >>) => Contains(t.name, a.keyword[1])
                       /\ Given(a.status, "") => t.status = a.status[1]
                       /\ Given(a.assignee, << >>) => t.assignee = Some(a.assignee[1])
                       /\ Given(a.priority, "") => t.priority = a.priority[1]})
            /\ (/\ ~Given(a.keyword, << >>) /\ ~Given(a.status, "")
                /\ ~Given(a.assignee, << >>) /\ ~Given(a.priority, ""))
               => ret.result \in TaskManager_get_tasks_by_project(DB, a.project_id)

\* C23: the keyword filter is literal, case-sensitive containment: a search
\* by keyword alone returns a task of the project exactly if the keyword
\* occurs in its name character for character.
C23_KeywordLiteral ==
    (/\ ret.op = "search_tasks"
     /\ Given(ret.kwargs.keyword, << >>)
     /\ ret.kwargs.status = None
     /\ ret.kwargs.assignee = None
     /\ ret.kwargs.priority = None)
    => \A t \in {x \in tasks : x.project_id = ret.kwargs.project_id} :
           (t \in Range(ret.result)) <=> Contains(t.name, ret.kwargs.keyword[1])

(***************************************************************************)
(* C24: the update whitelist.                                              *)
(***************************************************************************)
\* Patches that name columns a caller must not be able to write.
UnwritablePatches ==
    {[id |-> 9],
     [project_id |-> 9, created_at |-> CURRENT_TIMESTAMP(9)],
     [updated_at |-> isoformat(9)],
     [id |-> 9, created_at |-> CURRENT_TIMESTAMP(9), name |-> <<"c">>],
     [project_id |-> 9, status |-> "done", progress |-> 100]}

\* after is before with, at most, the row id changed in updated_at and in
\* those columns of writable that kwargs names
OnlyWritten(before, after, id, kwargs, writable) ==
    /\ Ids(after) = Ids(before)
    /\ Cardinality(after) = Cardinality(before)
    /\ \A old \in before, new \in after :
          old.id = new.id =>
              \A k \in DOMAIN old :
                  new[k] # old[k] =>
                      /\ old.id = id
                      /\ k = "updated_at" \/ k \in writable \cap DOMAIN kwargs

\* C24: update_task changes, in the task it is given, only updated_at and
\* those of name, due_date, priority, status, progress and assignee that the
\* field map names; update_project likewise only name, description and color;
\* id, project_id and created_at are never changed even when the map names
\* them, no other row is changed, and a map that names none of the writable
\* fields reports no change and leaves the store as it was.
C24_UpdateWhitelist ==
    /\ \A t \in TaskIdInputs, kwargs \in AnyTaskPatch \cup UnwritablePatches :
          LET r == TaskManager_update_task(DB, t, kwargs)
          IN  /\ OnlyWritten(tasks, r.db.tasks, t, kwargs,
                     {"name", "due_date", "priority", "status", "progress",
                      "assignee"})
              /\ r.db.projects = projects
              /\ (DOMAIN kwargs \cap {"name", "due_date", "priority", "status",
                                      "progress", "assignee"} = {})
                 => r.exc = "none" /\ ~r.ok /\ r.db = DB
    /\ \A p \in ProjectIdInputs, kwargs \in ProjectPatches \cup UnwritablePatches :
          LET r == TaskManager_update_project(DB, p, kwargs)
          IN  /\ OnlyWritten(projects, r.db.projects, p, kwargs,
                     {"name", "description", "color"})
              /\ r.db.tasks = tasks
              /\ (DOMAIN kwargs \cap {"name", "description", "color"} = {})
                 => r.exc = "none" /\ ~r.ok /\ r.db = DB

\* update_project(name = "c", id = 9) renamed a stored project and left its
\* id alone, while a task is stored
C24_Witness ==
    /\ ret.op = "update_project" /\ ret.ok
    /\ ret.kwargs = [name |-> <<"c">>, id |-> 9]
    /\ tasks # {}
    /\ \E p \in projects : p.name = <<"c">> /\ p.id = 1

(***************************************************************************)
(* Importing into a store that already holds rows: create_project,         *)
(* create_task and import_backup alone, with documents whose ids collide   *)
(* with stored ids and documents with an entry that cannot be inserted.    *)
(***************************************************************************)
\* Documents with an entry that cannot be inserted, after entries that can.
PartialFiles ==
    {Document(<<ProjectEntry(1, <<"p">>), [id |-> 2, title |-> <<"q">>]>>, << >>),
     Document(<<ProjectEntry(5, <<"p">>), ProjectEntry(6, <<"q">>),
                [id |-> 7, name |-> <<"z">>, owner |-> <<"x">>]>>,
              <<TaskEntry(1, 5, "low", "todo", 0)>>),
     Document(<<ProjectEntry(5, <<"p">>)>>,
              <<TaskEntry(1, 5, "high", "done", 100),
                [project_id |-> 5, title |-> <<"t">>],
                TaskEntry(3, 5, "low", "todo", 0)>>)}

ImportFiles ==
    PartialFiles
    \cup {[kind |-> "malformed"],
          Document(<<ProjectEntry(1, <<"z">>)>>,
                   <<TaskEntry(1, 1, "low", "todo", 0)>>)}

ImportCreateProject ==
    \E in \in BackupProjectInputs :
        Call(MaxImportClock, "create_project", << >>,
             TaskManager_create_project(DB, in.name, in.description, in.color))

ImportCreateTask ==
    \E project_id \in ProjectIdInputs, in \in BackupTaskInputs :
        Call(MaxImportClock, "create_task", << >>,
             TaskManager_create_task(DB, project_id, in.name, in.due_date,
                 in.priority, in.status, in.progress, in.assignee))

\* ret.kwargs.file is the file the call was given.
ImportImportBackup ==
    \E file \in ImportFiles :
        Call(MaxImportClock, "import_backup", [file |-> file],
             TaskManager_import_backup(DB, file))

NextImport ==
    \/ ImportCreateProject
    \/ ImportCreateTask
    \/ ImportImportBackup

SpecImport == Init /\ [][NextImport]_vars

(***************************************************************************)
(* C25: an import that fails part-way.                                     *)
(***************************************************************************)
\* C25: when import_backup stops with a failure at some entry of the
\* document, the rows it inserted for the entries before that one stay in the
\* store: the store is then exactly the one that importing only those
\* earlier entries gives, and it is not rolled back to the store before the
\* call.
C25_ImportNotTransactional ==
    \A file \in PartialFiles :
        LET r == TaskManager_import_backup(DB, file)
        IN  (r.exc # "none" \/ ~r.ok) =>
                LET pl == file.data.projects
                    tl == file.data.tasks
                    Prefix(k, j) == TaskManager_import_backup(DB,
                                        Document(SubSeq(pl, 1, k), SubSeq(tl, 1, j)))
                    Succeeds(k, j) == Prefix(k, j).exc = "none" /\ Prefix(k, j).ok
                IN  \E k \in 0 .. Len(pl), j \in 0 .. Len(tl) :
                        /\ Succeeds(k, j)
                        /\ IF k < Len(pl)
                           THEN j = 0 /\ ~Succeeds(k + 1, 0)
                           ELSE j < Len(tl) /\ ~Succeeds(k, j + 1)
                        /\ r.db = Prefix(k, j).db
                        /\ projects \subseteq r.db.projects
                        /\ tasks \subseteq r.db.tasks
                        /\ Cardinality(r.db.projects \ projects) = k
                        /\ k > 0 => r.db # DB

\* import_backup into a store that held a project and a task failed at the
\* second task entry of the document: the document's project and its first
\* task are stored
C25_Witness ==
    /\ ret.op = "import_backup" /\ ret.exc = "TypeError"
    /\ ret.kwargs.file.data.tasks # << >>
    /\ now = 4
    /\ \E p \in projects : p.id = 1 /\ p.name = <<"q">>
    /\ \E q \in projects : q.id = 2 /\ q.name = <<"p">>
    /\ \E t \in tasks : t.id = 1 /\ t.project_id = 1
    /\ \E u \in tasks : u.id = 2 /\ u.project_id = 2 /\ u.status = "done"

(***************************************************************************)
(* C28: import adds rows and touches none.                                 *)
(***************************************************************************)
\* C28: import_backup keeps every stored project and task as it was,
\* whatever ids the document uses and whether or not the import succeeds, and
\* the rows it inserts get ids no stored row has; importing a document twice
\* stores two copies of each row a single import of it stores.
C28_ImportAdditive ==
    \A file \in ImportFiles :
        LET r == TaskManager_import_backup(DB, file)
            again == TaskManager_import_backup(r.db, file)
            once_projects == r.db.projects \ projects
            once_tasks == r.db.tasks \ tasks
            twice_projects == again.db.projects \ projects
            twice_tasks == again.db.tasks \ tasks
        IN  /\ projects \subseteq r.db.projects
            /\ tasks \subseteq r.db.tasks
            /\ Ids(once_projects) \cap Ids(projects) = {}
            /\ Ids(once_tasks) \cap Ids(tasks) = {}
            /\ Cardinality(Ids(r.db.projects)) = Cardinality(r.db.projects)
            /\ Cardinality(Ids(r.db.tasks)) = Cardinality(r.db.tasks)
            /\ (r.exc = "none" /\ r.ok) =>
                  /\ again.exc = "none" /\ again.ok
                  /\ r.db.projects \subseteq again.db.projects
                  /\ r.db.tasks \subseteq again.db.tasks
                  /\ Cardinality(twice_projects) = 2 * Cardinality(once_projects)
                  /\ Cardinality(twice_tasks) = 2 * Cardinality(once_tasks)
                  /\ \A p \in once_projects :
                        \E q \in twice_projects \ once_projects : SameProject(p, q)
                  /\ \A t \in once_tasks :
                        \E u \in twice_tasks \ once_tasks :
                            SameTask(t, u) /\ u.project_id # t.project_id

\* import_backup of a document whose project and task carry the id 1 went
\* into a store holding project 1 and task 1: both are stored as before and
\* the document's rows are stored under the ids 2
C28_Witness ==
    /\ ret.op = "import_backup" /\ ret.exc = "none" /\ ret.ok
    /\ ret.kwargs.file.data.projects[1].id = 1
    /\ now = 4
    /\ \E p \in projects : p.id = 1 /\ p.name = <<"q">>
    /\ \E q \in projects : q.id = 2 /\ q.name = <<"z">>
    /\ \E t \in tasks : t.id = 1 /\ t.project_id = 1 /\ t.name # <<"t">>
    /\ \E u \in tasks : u.id = 2 /\ u.project_id = 2 /\ u.name = <<"t">>

(***************************************************************************)
(* Storage.delete_project statement by statement.  conn[1].db is the       *)
(* database as the connection sees it, conn[1].before the committed        *)
(* database when the connection was opened, conn[1].pc the statement       *)
(* executed last.  A statement may raise, and the process may end, at any  *)
(* point before the commit: the connection is then dropped without a       *)
(* commit and SQLite rolls its transaction back.                           *)
(***************************************************************************)
\* A variant in which the connection commits each statement as it executes.
Execute_autocommit(db, working) == working

\* The committed database after a statement changed the connection's view
\* from db to working: sqlite3.connect() leaves the connection in Python's
\* default mode, which begins a transaction before the first DELETE and
\* keeps the changes in it until commit().
Execute(db, working) == db

\* The committed rows become those of db.
Store(db) ==
    /\ projects' = db.projects
    /\ tasks' = db.tasks
    /\ seq_projects' = db.seq_projects
    /\ seq_tasks' = db.seq_tasks
    /\ now' = db.now

\* conn = self._get_connection()
delete_project_connect(project_id) ==
    /\ conn = None
    /\ conn' = Some([project_id |-> project_id, pc |-> "connect", db |-> DB,
                     before |-> DB, affected |-> 0])
    /\ ret' = [op |-> "delete_project", kwargs |-> << >>, exc |-> "none",
               id |-> 0, ok |-> FALSE]
    /\ UNCHANGED <<projects, tasks, seq_projects, seq_tasks, now, issued>>

\* cursor.execute("DELETE FROM tasks WHERE project_id = ?", (project_id,))
delete_project_delete_tasks ==
    /\ conn # None /\ conn[1].pc = "connect"
    /\ LET working == [conn[1].db EXCEPT
                          !.tasks = {t \in @ : t.project_id # conn[1].project_id}]
       IN  /\ conn' = Some([conn[1] EXCEPT !.pc = "delete_tasks", !.db = working])
           /\ Store(Execute(DB, working))
    /\ UNCHANGED <<ret, issued>>

\* cursor.execute("DELETE FROM projects WHERE id = ?", (project_id,))
\* affected = cursor.rowcount
delete_project_delete_row ==
    /\ conn # None /\ conn[1].pc = "delete_tasks"
    /\ LET working == [conn[1].db EXCEPT
                          !.projects = {p \in @ : p.id # conn[1].project_id}]
           affected == Cardinality({p \in conn[1].db.projects :
                                       p.id = conn[1].project_id})
       IN  /\ conn' = Some([conn[1] EXCEPT !.pc = "delete_row", !.db = working,
                                           !.affected = affected])
           /\ Store(Execute(DB, working))
    /\ UNCHANGED <<ret, issued>>

\* conn.commit()
delete_project_commit ==
    /\ conn # None /\ conn[1].pc = "delete_row"
    /\ conn' = Some([conn[1] EXCEPT !.pc = "commit"])
    /\ Store(conn[1].db)
    /\ UNCHANGED <<ret, issued>>

\* conn.close(); return affected > 0
delete_project_return ==
    /\ conn # None /\ conn[1].pc = "commit"
    /\ conn' = None
    /\ ret' = [ret EXCEPT !.ok = conn[1].affected > 0]
    /\ UNCHANGED <<projects, tasks, seq_projects, seq_tasks, now, issued>>

\* The call ends before conn.commit().
delete_project_abort ==
    /\ conn # None /\ conn[1].pc \in {"connect", "delete_tasks", "delete_row"}
    /\ conn' = None
    /\ ret' = [ret EXCEPT !.exc = "Error"]
    /\ UNCHANGED <<projects, tasks, seq_projects, seq_tasks, now, issued>>

\* The program is single-threaded: a call starts when no call is in progress.
AtomicCreateProject ==
    /\ conn = None
    /\ \E in \in ViewProjectInputs :
          Call(MaxAtomicClock, "create_project", << >>,
               TaskManager_create_project(DB, in.name, in.description, in.color))

AtomicCreateTask ==
    /\ conn = None
    /\ \E project_id \in ProjectIdInputs, in \in BackupTaskInputs :
          Call(MaxAtomicClock, "create_task", << >>,
               TaskManager_create_task(DB, project_id, in.name, in.due_date,
                   in.priority, in.status, in.progress, in.assignee))

DeleteProjectConnect ==
    \E project_id \in ProjectIdInputs : delete_project_connect(project_id)

NextAtomic ==
    \/ AtomicCreateProject
    \/ AtomicCreateTask
    \/ DeleteProjectConnect
    \/ delete_project_delete_tasks
    \/ delete_project_delete_row
    \/ delete_project_commit
    \/ delete_project_return
    \/ delete_project_abort

SpecAtomic == Init /\ [][NextAtomic]_vars

(***************************************************************************)
(* C26: delete_project is atomic.                                          *)
(***************************************************************************)
\* C26: while delete_project(p) runs, the committed store changes in one
\* step only, and that step removes the row of p and every task of p
\* together and nothing else: no step removes a task of p and leaves the row
\* of p, none removes the row and leaves a task of p, and a call that ends
\* before its commit leaves the committed store as it was.  No committed
\* state holds a task of a project that is not stored.
C26_DeleteProjectAtomic ==
    [][/\ conn # None =>
             LET p == conn[1].project_id
                 r == TaskManager_delete_project(conn[1].before, p)
             IN  /\ DB' = conn[1].before \/ DB' = r.db
                 /\ (\E t \in tasks \ tasks' : t.project_id = p)
                    => p \notin Ids(projects')
                 /\ p \in Ids(projects) \ Ids(projects')
                    => \A t \in tasks' : t.project_id # p
                 /\ delete_project_return
                    => DB' = r.db /\ ret'.ok = r.ok /\ ret'.exc = "none"
                 /\ delete_project_abort => DB' = conn[1].before
       /\ \A t \in tasks' : t.project_id \in Ids(projects')]_vars

\* delete_project of a project with two tasks has committed, another project
\* with a task is stored, and the call has not returned yet
C26_Witness ==
    /\ conn # None /\ conn[1].pc = "commit"
    /\ Cardinality({t \in conn[1].before.tasks :
                       t.project_id = conn[1].project_id}) = 2
    /\ conn[1].project_id \notin Ids(projects)
    /\ \A t \in tasks : t.project_id # conn[1].project_id
    /\ tasks # {}

(***************************************************************************)
(* C27: the order of the lists.                                            *)
(***************************************************************************)
\* C27: get_all_projects, get_tasks_by_project, get_tasks_by_status and
\* search_tasks list a row created later before a row created earlier (ids
\* are assigned in the order of creation), also when the two were created
\* within the same second.
C27_NewestFirst ==
    (/\ ret.op \in {"get_all_projects", "get_tasks_by_project",
                    "get_tasks_by_status", "search_tasks"}
     /\ ret.exc = "none")
    => \A i, j \in DOMAIN ret.result :
           ret.result[i].id > ret.result[j].id => i < j

(***************************************************************************)
(* C29: what a delete leaves alone.                                        *)
(***************************************************************************)
\* C29: delete_project(p) leaves every project other than p and every task
\* whose project_id is not p as it was, and delete_task(t) leaves every
\* project and every task other than t as it was; neither adds a row.
C29_DeleteFrame ==
    /\ \A p \in ProjectIdInputs :
          LET r == TaskManager_delete_project(DB, p)
          IN  /\ r.exc = "none"
              /\ {q \in r.db.projects : q.id # p} = {q \in projects : q.id # p}
              /\ {t \in r.db.tasks : t.project_id # p}
                     = {t \in tasks : t.project_id # p}
              /\ r.db.projects \subseteq projects
              /\ r.db.tasks \subseteq tasks
    /\ \A t \in TaskIdInputs :
          LET r == TaskManager_delete_task(DB, t)
          IN  /\ r.exc = "none"
              /\ r.db.projects = projects
              /\ {u \in r.db.tasks : u.id # t} = {u \in tasks : u.id # t}
              /\ r.db.tasks \subseteq tasks

\* delete_project removed the first of two projects; the second project and
\* its task are stored
C29_Witness ==
    /\ ret.op = "delete_project" /\ ret.ok
    /\ Ids(projects) = {2}
    /\ \E t \in tasks : t.project_id = 2

(***************************************************************************)
(* C30: the reads.                                                         *)
(***************************************************************************)
ReadOps ==
    {"get_project", "get_all_projects", "get_task", "get_tasks_by_project",
     "get_tasks_by_status", "search_tasks", "get_tasks_sorted",
     "get_project_stats", "export_backup"}

\* the outcome recorded in ret is one the same call has on the store as it is
Repeatable ==
    LET a == ret.kwargs
    IN  CASE ret.op = "get_project" ->
                 ret.result = TaskManager_get_project(DB, a.project_id)
          [] ret.op = "get_all_projects" ->
                 ret.result \in TaskManager_get_all_projects(DB)
          [] ret.op = "get_task" ->
                 ret.result = TaskManager_get_task(DB, a.task_id)
          [] ret.op = "get_tasks_by_project" ->
                 ret.result \in TaskManager_get_tasks_by_project(DB, a.project_id)
          [] ret.op = "get_tasks_by_status" ->
                 LET r == TaskManager_get_tasks_by_status(DB, a.project_id, a.status)
                 IN  /\ r.exc = ret.exc
                     /\ r.exc = "none" =>
                            ret.result \in Storage_get_tasks_by_status(DB,
                                               a.project_id, a.status)
          [] ret.op = "search_tasks" ->
                 ret.result \in TaskManager_search_tasks(DB, a.project_id,
                                    a.keyword, a.status, a.assignee, a.priority)
          [] ret.op = "get_tasks_sorted" ->
                 ret.result \in TaskManager_get_tasks_sorted(DB, a.project_id,
                                                             a.sort_by)
          [] ret.op = "get_project_stats" ->
                 ret.result = TaskManager_get_project_stats(DB, a.project_id)
          [] ret.op = "export_backup" ->
                 [file |-> ret.file, exc |-> ret.exc, ok |-> ret.ok]
                     \in TaskManager_export_backup(DB)

\* C30: a call of get_project, get_all_projects, get_task,
\* get_tasks_by_project, get_tasks_by_status, search_tasks, get_tasks_sorted,
\* get_project_stats or export_backup, whether it returns or raises, leaves
\* the stored projects and tasks, updated_at included, and the id counters
\* as they were, so that the same call on the store it leaves has the
\* outcome it just had.
C30_ReadsLeaveStore ==
    [][ret'.op \in ReadOps =>
          /\ projects' = projects
          /\ tasks' = tasks
          /\ seq_projects' = seq_projects
          /\ seq_tasks' = seq_tasks
          /\ Repeatable']_vars

\* search_tasks returned two tasks, both stored as returned
C30_Witness ==
    /\ ret.op = "search_tasks"
    /\ Len(ret.result) = 2
    /\ Range(ret.result) \subseteq tasks

====
